---- MODULE Spec2Model ----
(***************************************************************************)
(* Model of data_analyser.py: load_data, create_graph, the four            *)
(* distribution passes, analyze_graph_structure and main.                  *)
(*                                                                         *)
(* Three specifications share the variables:                               *)
(*   SpecBuild     create_graph, one row per step, on arbitrary event and  *)
(*                 edge rows;                                              *)
(*   SpecStructure analyze_graph_structure, one report section per step,   *)
(*                 on arbitrary graphs create_graph can return;            *)
(*   Spec          main, one call per step.                                *)
(*                                                                         *)
(* Modelled columns: ID, Description, Date of an event row; Source,        *)
(* Target, Type, Description of an edge row.  The columns World,           *)
(* Characters, Important Trigger and Death are copied and counted by the   *)
(* code exactly like Description and are not modelled separately.          *)
(* networkx and pandas calls are modelled by the algorithm the library     *)
(* runs at the call site named in MODEL_MAP.json.  Floating point scores   *)
(* are modelled as exact rationals.                                        *)
(***************************************************************************)
EXTENDS Integers, Sequences, FiniteSets, TLC

VARIABLES pc, events_df, edges_df, G, i, report, betweenness, components

vars == <<pc, events_df, edges_df, G, i, report, betweenness, components>>

\* The locals of analyze_graph_structure before they are assigned.
Unset == <<>>

(***************************************************************************)
(* Bounds of the explored inputs.                                          *)
(***************************************************************************)
MaxId == 2            \* event and endpoint identifiers are 1..MaxId
MaxEventRows == 2     \* SpecBuild: rows of Dark_Events.csv
MaxEdgeRows == 2      \* SpecBuild: rows of Dark_Edges.csv

(***************************************************************************)
(* Cells.  A missing CSV cell is read by pandas as NaN.                    *)
(***************************************************************************)
NaN == 0

notna(x) == x # NaN

Ids == 1..MaxId

\* A Date cell: the text "dd-mm-yyyy" of the CSV (kind "str"), a missing
\* cell (kind "nan"), or, after pd.to_datetime, a timestamp (kind "ts") or
\* NaT (kind "nat").
DateStr(d, m, y) == [kind |-> "str", d |-> d, m |-> m, y |-> y]

DateNaN == [kind |-> "nan", d |-> 0, m |-> 0, y |-> 0]

\* The date every row of SpecBuild carries.
BuildDate == DateStr(21, 6, 1986)

\* An event row.  The cells of the columns Important Trigger, Death,
\* Characters (the names, already split at the commas) and World are the
\* same in every row explored.
EventRow(id, desc, date) ==
  [ID |-> id, Description |-> desc, Date |-> date, Trigger |-> TRUE,
   Death |-> FALSE, Characters |-> <<"Jonas">>, World |-> "Origin"]

EdgeRow(s, t, k) == [Source |-> s, Target |-> t, Type |-> k, Description |-> k]

\* All sequences over S of length at most n.
SeqsUpTo(S, n) == UNION {[1..k -> S] : k \in 0..n}

\* Event rows of SpecBuild: any identifiers (duplicates included); row k
\* carries its own description k.
BuildEventInputs ==
  {[k \in 1..Len(ids) |-> EventRow(ids[k], k, BuildDate)] :
     ids \in SeqsUpTo(Ids, MaxEventRows)}

\* Edge rows of SpecBuild: each endpoint an identifier or missing; row k
\* carries its own type and description k.
BuildEdgeInputs ==
  {[k \in 1..Len(ends) |-> EdgeRow(ends[k][1], ends[k][2], k)] :
     ends \in SeqsUpTo((Ids \cup {NaN}) \X (Ids \cup {NaN}), MaxEdgeRows)}

(***************************************************************************)
(* nx.DiGraph: nodes in insertion order with an attribute dict each, edges *)
(* (one per ordered pair) in insertion order with an attribute dict each.  *)
(* A dict is a set of <<key, value>> pairs.                                *)
(***************************************************************************)
EmptyGraph == [node |-> <<>>, nattr |-> <<>>, edge |-> <<>>, eattr |-> <<>>]

Range(s) == {s[k] : k \in DOMAIN s}

Keys(d) == {p[1] : p \in d}

\* dict.update(new)
DictUpdate(old, new) == {p \in old : p[1] \notin Keys(new)} \cup new

Nodes(g) == Range(g.node)

Edges(g) == Range(g.edge)

\* DiGraph.add_node(n, **attr): a new node is appended with attr; an
\* existing node keeps its place and its dict is updated with attr.
MutAddNodeNoUpdate(g, n, attr) ==
  IF n \in Nodes(g)
    THEN g
    ELSE [g EXCEPT !.node = Append(@, n), !.nattr = @ @@ (n :> attr)]

add_node(g, n, attr) ==
  IF n \in Nodes(g)
    THEN [g EXCEPT !.nattr = [@ EXCEPT ![n] = DictUpdate(@, attr)]]
    ELSE [g EXCEPT !.node = Append(@, n), !.nattr = @ @@ (n :> attr)]

\* DiGraph.add_edge(u, v, **attr): u, then v, is added as a node with an
\* empty dict when absent; the edge's dict is created or updated.
add_edge(g, u, v, attr) ==
  LET g1 == IF u \in Nodes(g) THEN g ELSE add_node(g, u, {})
      g2 == IF v \in Nodes(g1) THEN g1 ELSE add_node(g1, v, {})
      e  == <<u, v>>
  IN  IF e \in Edges(g2)
        THEN [g2 EXCEPT !.eattr = [@ EXCEPT ![e] = DictUpdate(@, attr)]]
        ELSE [g2 EXCEPT !.edge = Append(@, e), !.eattr = @ @@ (e :> attr)]

\* The keyword arguments of add_node; important_trigger, death, characters
\* and world, equal in every row, are left out of the dict.
NodeAttrs(event) ==
  {<<"description", event.Description>>, <<"date", event.Date>>}

EdgeAttrs(edge) ==
  {<<"edge_type", edge.Type>>, <<"description", edge.Description>>}

\* Body of the first loop of create_graph.
AddEventNode(g, event) == add_node(g, event.ID, NodeAttrs(event))

\* Body of the second loop of create_graph.
AddEdgeRow(g, edge) ==
  IF notna(edge.Source) /\ notna(edge.Target)
    THEN add_edge(g, edge.Source, edge.Target, EdgeAttrs(edge))
    ELSE g

RECURSIVE AddAllNodes(_, _, _)
AddAllNodes(g, events, k) ==
  IF k > Len(events) THEN g
  ELSE AddAllNodes(AddEventNode(g, events[k]), events, k + 1)

RECURSIVE AddAllEdges(_, _, _)
AddAllEdges(g, edges, k) ==
  IF k > Len(edges) THEN g
  ELSE AddAllEdges(AddEdgeRow(g, edges[k]), edges, k + 1)

create_graph(events, edges) ==
  AddAllEdges(AddAllNodes(EmptyGraph, events, 1), edges, 1)

(***************************************************************************)
(* SpecBuild: create_graph row by row.                                     *)
(***************************************************************************)
InitBuild ==
  /\ pc = "nodes"
  /\ events_df \in BuildEventInputs
  /\ edges_df \in BuildEdgeInputs
  /\ G = EmptyGraph
  /\ i = 1
  /\ report = <<>>
  /\ betweenness = Unset
  /\ components = Unset

AddNodeStep ==
  /\ pc = "nodes"
  /\ i <= Len(events_df)
  /\ G' = AddEventNode(G, events_df[i])
  /\ i' = i + 1
  /\ UNCHANGED <<pc, events_df, edges_df, report, betweenness, components>>

NodesDone ==
  /\ pc = "nodes"
  /\ i > Len(events_df)
  /\ pc' = "edges"
  /\ i' = 1
  /\ UNCHANGED <<events_df, edges_df, G, report, betweenness, components>>

AddEdgeStep ==
  /\ pc = "edges"
  /\ i <= Len(edges_df)
  /\ G' = AddEdgeRow(G, edges_df[i])
  /\ i' = i + 1
  /\ UNCHANGED <<pc, events_df, edges_df, report, betweenness, components>>

ReturnGraph ==
  /\ pc = "edges"
  /\ i > Len(edges_df)
  /\ pc' = "returned"
  /\ UNCHANGED <<events_df, edges_df, G, i, report, betweenness, components>>

NextBuild == AddNodeStep \/ NodesDone \/ AddEdgeStep \/ ReturnGraph

SpecBuild == InitBuild /\ [][NextBuild]_vars

(***************************************************************************)
(* Graph queries used by analyze_graph_structure.                          *)
(***************************************************************************)
Min(a, b) == IF a <= b THEN a ELSE b

\* Project the pairs of a sequence of edges on one coordinate.
Coord(es, c) == [k \in 1..Len(es) |-> es[k][c]]

\* G.successors(u) / G.neighbors(u), in edge insertion order.
IsFrom(e, u) == e[1] = u

Succ(g, u) == Coord(SelectSeq(g.edge, LAMBDA e : IsFrom(e, u)), 2)

\* G.pred[v], in edge insertion order.
Pred(g, v) == Coord(SelectSeq(g.edge, LAMBDA e : e[2] = v), 1)

number_of_nodes(g) == Len(g.node)

number_of_edges(g) == Len(g.edge)

out_degree(g, n) == Len(Succ(g, n))

in_degree(g, n) == Len(Pred(g, n))

RECURSIVE SumOver(_, _)
SumOver(f, S) ==
  IF S = {} THEN 0
  ELSE LET x == CHOOSE y \in S : TRUE IN f[x] + SumOver(f, S \ {x})

(***************************************************************************)
(* nx.betweenness_centrality(G), directed, normalized, endpoints excluded. *)
(* Breadth-first search from every source s gives the distance d(s, v) and *)
(* the number sigma(s, v) of shortest paths, as in the first phase of      *)
(* Brandes' algorithm; the accumulated dependency of s on v is the sum     *)
(* over targets t of sigma(s,v) * sigma(v,t) / sigma(s,t) for v on a       *)
(* shortest s-t path.  Scores are exact rationals [num, den].              *)
(***************************************************************************)
RECURSIVE Bfs(_, _, _, _)
Bfs(g, frontier, d, acc) ==
  \* acc: [dist, sigma], functions on the nodes reached so far
  LET next == {v \in Nodes(g) \ DOMAIN acc.dist :
                 \E u \in frontier : <<u, v>> \in Edges(g)}
      sig(v) == SumOver(acc.sigma, {u \in frontier : <<u, v>> \in Edges(g)})
  IN  IF next = {} THEN acc
      ELSE Bfs(g, next, d + 1,
               [dist  |-> acc.dist @@ [v \in next |-> d + 1],
                sigma |-> acc.sigma @@ [v \in next |-> sig(v)]])

ShortestPaths(g, s) == Bfs(g, {s}, 0, [dist |-> (s :> 0), sigma |-> (s :> 1)])

RECURSIVE Gcd(_, _)
Gcd(a, b) == IF b = 0 THEN a ELSE Gcd(b, a % b)

Lcm(a, b) == (a * b) \div Gcd(a, b)

RECURSIVE LcmOver(_)
LcmOver(S) ==
  IF S = {} THEN 1
  ELSE LET x == CHOOSE y \in S : TRUE IN Lcm(x, LcmOver(S \ {x}))

RECURSIVE SumSeq(_, _)
SumSeq(vals, k) == IF k = 0 THEN 0 ELSE vals[k] + SumSeq(vals, k - 1)

betweenness_centrality(g) ==
  LET V == Nodes(g)
      n == Len(g.node)
      sp == [s \in V |-> ShortestPaths(g, s)]
      D == LcmOver(UNION {Range(sp[s].sigma) : s \in V})
      dep(v, s, t) ==
        IF /\ s # v /\ t # v /\ s # t
           /\ v \in DOMAIN sp[s].dist
           /\ t \in DOMAIN sp[v].dist
           /\ sp[s].dist[v] + sp[v].dist[t] = sp[s].dist[t]
        THEN (sp[s].sigma[v] * sp[v].sigma[t] * D) \div sp[s].sigma[t]
        ELSE 0
      total(v) ==
        SumSeq([a \in 1..n |->
                  SumSeq([b \in 1..n |-> dep(v, g.node[a], g.node[b])], n)], n)
      scale == IF n <= 2 THEN 1 ELSE (n - 1) * (n - 2)
  IN  [v \in V |-> [num |-> total(v), den |-> D * scale]]

\* Comparison of two scores.
ScoreLess(a, b) == a.num * b.den < b.num * a.den

ScoreEq(a, b) == a.num * b.den = b.num * a.den

\* f'{centrality:.3f}': the score in thousandths, rounded to nearest.
Format3f(a) == (2000 * a.num + a.den) \div (2 * a.den)

\* betweenness.items(): one (node, score) item per node, in node order.
Items(g, score) == [k \in 1..Len(g.node) |-> <<g.node[k], score[g.node[k]]>>]

\* sorted(items, key=lambda x: x[1], reverse=True): a stable sort, so items
\* of equal score keep the order they have in items.
RECURSIVE InsertDesc(_, _)
MutInsertDescById(sorted, x) ==
  IF sorted = <<>> THEN <<x>>
  ELSE IF \/ ScoreLess(Head(sorted)[2], x[2])
          \/ (ScoreEq(Head(sorted)[2], x[2]) /\ x[1] < Head(sorted)[1])
    THEN <<x>> \o sorted
    ELSE <<Head(sorted)>> \o InsertDesc(Tail(sorted), x)

InsertDesc(sorted, x) ==
  IF sorted = <<>> THEN <<x>>
  ELSE IF ScoreLess(Head(sorted)[2], x[2])
    THEN <<x>> \o sorted
    ELSE <<Head(sorted)>> \o InsertDesc(Tail(sorted), x)

RECURSIVE SortedDesc(_, _)
SortedDesc(items, k) ==
  IF k = 0 THEN <<>> ELSE InsertDesc(SortedDesc(items, k - 1), items[k])

TopN == 5

top_central(g, score) ==
  LET all == SortedDesc(Items(g, score), Len(g.node))
  IN  SubSeq(all, 1, Min(TopN, Len(all)))

\* dead_ends: the nodes without outgoing edge, in node order.
dead_ends(g) == SelectSeq(g.node, LAMBDA n : out_degree(g, n) = 0)

(***************************************************************************)
(* nx.simple_cycles(G).  The self-loops are yielded first, one [v] per     *)
(* node v with an edge v -> v, in node order; the search for the longer    *)
(* cycles then runs on the graph without its self-loops: a depth-first     *)
(* enumeration in which each elementary cycle is reported once, from its   *)
(* first node in node order (the root is removed from the graph once its   *)
(* cycles are found, so no later search passes through it).                *)
(***************************************************************************)
SelfLoops(g) ==
  LET looped == SelectSeq(g.node, LAMBDA v : <<v, v>> \in Edges(g))
  IN  [k \in 1..Len(looped) |-> <<looped[k]>>]

RECURSIVE CyclesDfs(_, _, _, _)
RECURSIVE CyclesSucc(_, _, _, _, _, _)
CyclesSucc(g, start, path, allowed, succ, k) ==
  IF k > Len(succ) THEN <<>>
  ELSE LET w == succ[k]
           here == IF w = start
                     THEN (IF Len(path) > 1 THEN <<path>> ELSE <<>>)
                   ELSE IF w \in allowed /\ w \notin Range(path)
                     THEN CyclesDfs(g, start, Append(path, w), allowed)
                     ELSE <<>>
       IN  here \o CyclesSucc(g, start, path, allowed, succ, k + 1)

CyclesDfs(g, start, path, allowed) ==
  CyclesSucc(g, start, path, allowed, Succ(g, path[Len(path)]), 1)

\* A search that never removes a root: a cycle is found from each of its
\* nodes.
RECURSIVE MutCyclesAllKeepsRoots(_, _)
MutCyclesAllKeepsRoots(g, k) ==
  IF k > Len(g.node) THEN <<>>
  ELSE CyclesDfs(g, g.node[k], <<g.node[k]>>, Range(g.node))
       \o MutCyclesAllKeepsRoots(g, k + 1)

RECURSIVE CyclesAll(_, _)
CyclesAll(g, k) ==
  IF k > Len(g.node) THEN <<>>
  ELSE CyclesDfs(g, g.node[k], <<g.node[k]>>,
                 {g.node[j] : j \in (k + 1)..Len(g.node)})
       \o CyclesAll(g, k + 1)

simple_cycles(g) == SelfLoops(g) \o CyclesAll(g, 1)

LoopsShown == 3

(***************************************************************************)
(* nx.topological_sort(G) (Kahn's algorithm by generations) and            *)
(* nx.is_directed_acyclic_graph(G), which holds iff the sort consumes      *)
(* every node.                                                             *)
(***************************************************************************)
RECURSIVE DecChildren(_, _, _)
DecChildren(children, k, st) ==
  IF k > Len(children) THEN st
  ELSE LET c == children[k]
           d == st.indeg[c] - 1
       IN  DecChildren(children, k + 1,
             [indeg |-> [st.indeg EXCEPT ![c] = d],
              zero  |-> IF d = 0 THEN Append(st.zero, c) ELSE st.zero])

RECURSIVE ProcessGeneration(_, _, _, _)
ProcessGeneration(g, gen, k, st) ==
  IF k > Len(gen) THEN st
  ELSE ProcessGeneration(g, gen, k + 1, DecChildren(Succ(g, gen[k]), 1, st))

RECURSIVE Generations(_, _, _)
Generations(g, st, order) ==
  IF st.zero = <<>> THEN order
  ELSE Generations(g,
         ProcessGeneration(g, st.zero, 1, [indeg |-> st.indeg, zero |-> <<>>]),
         order \o st.zero)

topological_sort(g) ==
  Generations(g,
    [indeg |-> [v \in Nodes(g) |-> in_degree(g, v)],
     zero  |-> SelectSeq(g.node, LAMBDA v : in_degree(g, v) = 0)],
    <<>>)

is_directed_acyclic_graph(g) == Len(topological_sort(g)) = Len(g.node)

(***************************************************************************)
(* nx.dag_longest_path(G): dynamic program over the topological order;     *)
(* dist[v] = <<edges on a longest path ending in v, predecessor on it>>.   *)
(***************************************************************************)
\* max(seq, key=...): the first element of greatest key.
ArgMaxFirst(keys) ==
  CHOOSE k \in DOMAIN keys :
    /\ \A j \in DOMAIN keys : keys[j] <= keys[k]
    /\ \A j \in 1..(k - 1) : keys[j] < keys[k]

RECURSIVE LongestDist(_, _, _, _)
MutLongestDistNoIncrement(g, order, k, dist) ==
  IF k > Len(order) THEN dist
  ELSE LET v  == order[k]
           us == Pred(g, v)
           ks == [j \in 1..Len(us) |-> dist[us[j]][1]]
           mu == IF us = <<>> THEN <<0, v>>
                 ELSE <<ks[ArgMaxFirst(ks)], us[ArgMaxFirst(ks)]>>
       IN  LongestDist(g, order, k + 1, dist @@ (v :> mu))

LongestDist(g, order, k, dist) ==
  IF k > Len(order) THEN dist
  ELSE LET v  == order[k]
           us == Pred(g, v)
           ks == [j \in 1..Len(us) |-> dist[us[j]][1] + 1]
           mu == IF us = <<>> THEN <<0, v>>
                 ELSE <<ks[ArgMaxFirst(ks)], us[ArgMaxFirst(ks)]>>
       IN  LongestDist(g, order, k + 1, dist @@ (v :> mu))

RECURSIVE BackTrack(_, _, _)
BackTrack(dist, v, path) ==
  IF dist[v][2] = v THEN <<v>> \o path
  ELSE BackTrack(dist, dist[v][2], <<v>> \o path)

dag_longest_path(g) ==
  IF g.node = <<>> THEN <<>>
  ELSE LET order == topological_sort(g)
           dist  == LongestDist(g, order, 1, <<>>)
           ks    == [j \in 1..Len(order) |-> dist[order[j]][1]]
       IN  BackTrack(dist, order[ArgMaxFirst(ks)], <<>>)

\* longest_path of analyze_graph_structure: None is the empty sequence,
\* the two being told apart by no later statement.
longest_path(g) ==
  IF is_directed_acyclic_graph(g) THEN dag_longest_path(g) ELSE <<>>

(***************************************************************************)
(* nx.strongly_connected_components(G): Tarjan's algorithm.                *)
(***************************************************************************)
RECURSIVE IndexOf(_, _, _)
IndexOf(s, x, k) == IF s[k] = x THEN k ELSE IndexOf(s, x, k + 1)

RECURSIVE Strong(_, _, _)
RECURSIVE StrongSucc(_, _, _, _, _)
MutStrongSuccNoBackEdge(g, st, v, succ, k) ==
  IF k > Len(succ) THEN st
  ELSE LET w == succ[k]
           st1 == IF w \notin DOMAIN st.index
                    THEN LET r == Strong(g, st, w)
                         IN  [r EXCEPT !.low[v] = Min(@, r.low[w])]
                    ELSE st
       IN  StrongSucc(g, st1, v, succ, k + 1)

StrongSucc(g, st, v, succ, k) ==
  IF k > Len(succ) THEN st
  ELSE LET w == succ[k]
           st1 == IF w \notin DOMAIN st.index
                    THEN LET r == Strong(g, st, w)
                         IN  [r EXCEPT !.low[v] = Min(@, r.low[w])]
                  ELSE IF w \in Range(st.stack)
                    THEN [st EXCEPT !.low[v] = Min(@, st.index[w])]
                    ELSE st
       IN  StrongSucc(g, st1, v, succ, k + 1)

Strong(g, st, v) ==
  LET st1 == [st EXCEPT !.index = @ @@ (v :> st.next),
                        !.low   = @ @@ (v :> st.next),
                        !.next  = @ + 1,
                        !.stack = <<v>> \o @]
      st2 == StrongSucc(g, st1, v, Succ(g, v), 1)
      top == IndexOf(st2.stack, v, 1)
  IN  IF st2.low[v] = st2.index[v]
        THEN [st2 EXCEPT
                !.comps = Append(@, {st2.stack[j] : j \in 1..top}),
                !.stack = SubSeq(@, top + 1, Len(@))]
        ELSE st2

RECURSIVE StrongAll(_, _, _)
StrongAll(g, st, k) ==
  IF k > Len(g.node) THEN st
  ELSE StrongAll(g,
         IF g.node[k] \in DOMAIN st.index THEN st ELSE Strong(g, st, g.node[k]),
         k + 1)

\* list(nx.strongly_connected_components(G)): the components, as sets.
strongly_connected_components(g) ==
  StrongAll(g, [index |-> <<>>, low |-> <<>>, next |-> 0,
                stack |-> <<>>, comps |-> <<>>], 1).comps

\* len(max(components, key=len))
LargestSize(comps) ==
  Cardinality(comps[ArgMaxFirst([k \in 1..Len(comps) |-> Cardinality(comps[k])])])

(***************************************************************************)
(* The lines analyze_graph_structure writes, section by section.  A line   *)
(* is a tuple: its label, then its values.                                 *)
(***************************************************************************)
SizeLines(g) ==
  << <<"Graph Structure Analysis:">>,
     <<"Number of events (nodes)", number_of_nodes(g)>>,
     <<"Number of connections (edges)", number_of_edges(g)>> >>

CentralLines(g, score) ==
  LET top == top_central(g, score)
  IN  << <<"Top 5 most central events (by betweenness centrality):">> >>
      \o [k \in 1..Len(top) |-> <<"Event", top[k][1], Format3f(top[k][2])>>]

DeadEndLines(g) ==
  << <<"Dead-end events (no consequences)", Len(dead_ends(g))>> >>

CycleLines(g) ==
  LET cycles == simple_cycles(g)
  IN  << <<"Causal loops found", Len(cycles)>> >>
      \o (IF cycles = <<>> THEN <<>>
          ELSE << <<"Notable causal loops:">> >>
               \o [k \in 1..Min(LoopsShown, Len(cycles)) |->
                     <<"Loop", k, cycles[k]>>])

LongestLines(g) ==
  LET path == longest_path(g)
  IN  IF path # <<>>
        THEN << <<"Longest causal chain", Len(path)>>, <<"Path", path>> >>
        ELSE <<>>

GroupCountLine(comps) == <<"Strongly connected event groups", Len(comps)>>

\* max() of an empty list raises ValueError.
LargestRaises(comps) == comps = <<>>

LargestLine(comps) == <<"Largest group size", LargestSize(comps)>>

(***************************************************************************)
(* SpecStructure: analyze_graph_structure(G, report_file), one section per *)
(* step, on the graphs create_graph returns for MaxNodes events at most,   *)
(* inserted in any order, and MaxLinks distinct edges at most among them.  *)
(***************************************************************************)
MaxNodes == 3

MaxLinks == 3

\* A second family, with more events than the report lists: MaxChain events
\* at most, inserted in ascending or descending order, and any of the edges
\* k -> k+1 between them.
MaxChain == 6

\* Insertion orders of the events 1..n: the rotations of the ascending and
\* of the descending order (every order, for n <= 3).
InsertionOrders(n) ==
  UNION {{[k \in 1..n |-> ((k + r) % n) + 1],
          [k \in 1..n |-> n - ((k + r) % n)]} : r \in 0..(n - 1)}
  \cup (IF n = 0 THEN {<<>>} ELSE {})

\* The pairs of E as a sequence, in lexicographic order.
RECURSIVE SortedPairs(_)
SortedPairs(E) ==
  IF E = {} THEN <<>>
  ELSE LET e == CHOOSE x \in E :
                  \A y \in E : x[1] < y[1] \/ (x[1] = y[1] /\ x[2] <= y[2])
       IN  <<e>> \o SortedPairs(E \ {e})

\* The subsets of S with k elements at most.
RECURSIVE SubsetsUpTo(_, _)
SubsetsUpTo(S, k) ==
  IF k = 0 THEN {{}}
  ELSE LET P == SubsetsUpTo(S, k - 1)
       IN  P \cup {p \cup {x} : p \in P, x \in S}

\* The graph create_graph returns for events order[1], order[2], ... and
\* the edge rows es[1], es[2], ...
GraphOf(order, es) ==
  create_graph([k \in 1..Len(order) |-> EventRow(order[k], k, BuildDate)],
               [k \in 1..Len(es) |-> EdgeRow(es[k][1], es[k][2], k)])

\* The self-loops, the ring 1 -> 2 -> ... -> n -> 1 and the edge 2 -> 1: the
\* graphs made of these edges hold many causal loops on few nodes.
LoopyPairs(n) ==
  {<<k, k>> : k \in 1..n} \cup {<<k, (k % n) + 1>> : k \in 1..n} \cup {<<2, 1>>}

InitStructure ==
  /\ pc = "s_size"
  /\ events_df = <<>>
  /\ edges_df = <<>>
  /\ \/ \E n \in 0..MaxNodes :
          \E E \in SubsetsUpTo((1..n) \X (1..n), MaxLinks) :
            \E order \in InsertionOrders(n) :
              G = GraphOf(order, SortedPairs(E))
     \/ \E n \in (MaxNodes + 1)..MaxChain :
          \E E \in SUBSET {<<k, k + 1>> : k \in 1..(n - 1)} :
            \E order \in {[k \in 1..n |-> k], [k \in 1..n |-> n + 1 - k]} :
              G = GraphOf(order, SortedPairs(E))
     \/ \E n \in 2..MaxNodes :
          \E E \in SUBSET LoopyPairs(n) :
            \E order \in {[k \in 1..n |-> k], [k \in 1..n |-> n + 1 - k]} :
              G = GraphOf(order, SortedPairs(E))
  /\ i = 0
  /\ report = <<>>
  /\ betweenness = Unset
  /\ components = Unset

WriteSection(from, lines, to) ==
  /\ pc = from
  /\ report' = report \o lines
  /\ pc' = to
  /\ UNCHANGED <<events_df, edges_df, G, i>>

WriteSize ==
  /\ WriteSection("s_size", SizeLines(G), "s_centrality")
  /\ UNCHANGED <<betweenness, components>>

ComputeCentrality ==
  /\ pc = "s_centrality"
  /\ betweenness' = betweenness_centrality(G)
  /\ pc' = "s_central"
  /\ UNCHANGED <<events_df, edges_df, G, i, report, components>>

WriteCentral ==
  /\ WriteSection("s_central", CentralLines(G, betweenness), "s_deadends")
  /\ UNCHANGED <<betweenness, components>>

WriteDeadEnds ==
  /\ WriteSection("s_deadends", DeadEndLines(G), "s_cycles")
  /\ UNCHANGED <<betweenness, components>>

WriteCycles ==
  /\ WriteSection("s_cycles", CycleLines(G), "s_longest")
  /\ UNCHANGED <<betweenness, components>>

WriteLongest ==
  /\ WriteSection("s_longest", LongestLines(G), "s_components")
  /\ UNCHANGED <<betweenness, components>>

ComputeComponents ==
  /\ pc = "s_components"
  /\ components' = strongly_connected_components(G)
  /\ WriteSection("s_components", <<GroupCountLine(components')>>, "s_largest")
  /\ UNCHANGED betweenness

WriteLargest ==
  /\ pc = "s_largest"
  /\ ~LargestRaises(components)
  /\ WriteSection("s_largest", <<LargestLine(components)>>, "s_done")
  /\ UNCHANGED <<betweenness, components>>

LargestRaise ==
  /\ pc = "s_largest"
  /\ LargestRaises(components)
  /\ pc' = "s_failed"
  /\ UNCHANGED <<events_df, edges_df, G, i, report, betweenness, components>>

NextStructure ==
  \/ WriteSize
  \/ ComputeCentrality
  \/ WriteCentral
  \/ WriteDeadEnds
  \/ WriteCycles
  \/ WriteLongest
  \/ ComputeComponents
  \/ WriteLargest
  \/ LargestRaise

SpecStructure == InitStructure /\ [][NextStructure]_vars

\* All the lines of one call, in order; the last is missing when max()
\* raises.
StructureLines(g, score, comps) ==
  SizeLines(g) \o CentralLines(g, score)
    \o DeadEndLines(g) \o CycleLines(g) \o LongestLines(g)
    \o <<GroupCountLine(comps)>>
    \o (IF LargestRaises(comps) THEN <<>> ELSE <<LargestLine(comps)>>)

(***************************************************************************)
(* The distribution passes over events_df.                                 *)
(***************************************************************************)
\* The values of a column, in row order.
Column(df, c) == [k \in 1..Len(df) |-> df[k][c]]

\* Series.value_counts() of a column: the number of rows per value.
CountOf(col, v) == Cardinality({k \in DOMAIN col : col[k] = v})

\* analyze_worlds
WorldLines(df) ==
  LET col == Column(df, "World")
  IN  << <<"Events Distribution Across Worlds:">> >>
      \o (IF col = <<>> THEN <<>> ELSE << <<"Origin", CountOf(col, "Origin")>> >>)

\* Days of month m of year y.
DaysIn(m, y) ==
  IF m \in {4, 6, 9, 11} THEN 30
  ELSE IF m # 2 THEN 31
  ELSE IF y % 4 = 0 /\ (y % 100 # 0 \/ y % 400 = 0) THEN 29 ELSE 28

\* strptime(text, '%d-%m-%Y') succeeds.
Parses(c) == c.m \in 1..12 /\ c.d \in 1..DaysIn(c.m, c.y) /\ c.y \in 1..9999

\* pd.to_datetime(column, format='%d-%m-%Y') raises ValueError.
ToDatetimeRaises(col) ==
  \E k \in DOMAIN col : col[k].kind = "str" /\ ~Parses(col[k])

\* One cell converted: text to a timestamp, a missing cell to NaT.
ToDatetimeCell(c) ==
  IF c.kind = "str" THEN [c EXCEPT !.kind = "ts"]
  ELSE IF c.kind = "nan" THEN [c EXCEPT !.kind = "nat"]
  ELSE c

\* events_df['Date'] = pd.to_datetime(events_df['Date'], ...)
AssignDate(df) ==
  [k \in 1..Len(df) |-> [df[k] EXCEPT !.Date = ToDatetimeCell(@)]]

\* The ascending sequence of the numbers of S.
RECURSIVE Ascending(_)
Ascending(S) ==
  IF S = {} THEN <<>>
  ELSE LET x == CHOOSE y \in S : \A z \in S : y <= z
       IN  <<x>> \o Ascending(S \ {x})

\* The lines of analyze_temporal_patterns, from the converted column.  The
\* years are floats as soon as one date is NaT.
TemporalLines(df) ==
  LET col   == Column(df, "Date")
      dated == {k \in DOMAIN col : col[k].kind = "ts"}
      years == Ascending({col[k].y : k \in dated})
      num   == IF dated = DOMAIN col THEN "int" ELSE "float"
      cnt(y) == Cardinality({k \in dated : col[k].y = y})
  IN  << <<"Temporal Distribution of Events:">> >>
      \o [j \in 1..Len(years) |-> <<"Year", years[j], cnt(years[j]), num>>]
      \o (IF Len(years) > 1
            THEN << <<"Total time span", years[Len(years)] - years[1], num>> >>
            ELSE <<>>)

TopCharacters == 10

\* analyze_character_involvement: Counter(all_characters).most_common(10),
\* by descending count, names of equal count in order of first mention.
Mentions(col) == UNION {{<<k, j>> : j \in DOMAIN col[k]} : k \in DOMAIN col}

MentionsOf(col, name) == {m \in Mentions(col) : col[m[1]][m[2]] = name}

FirstMention(col, name) ==
  CHOOSE m \in MentionsOf(col, name) :
    \A o \in MentionsOf(col, name) :
      m[1] < o[1] \/ (m[1] = o[1] /\ m[2] <= o[2])

Before(col, a, b) ==
  LET ca == Cardinality(MentionsOf(col, a))
      cb == Cardinality(MentionsOf(col, b))
      fa == FirstMention(col, a)
      fb == FirstMention(col, b)
  IN  ca > cb \/ (ca = cb /\ (fa[1] < fb[1] \/ (fa[1] = fb[1] /\ fa[2] <= fb[2])))

RECURSIVE MostCommon(_, _)
MostCommon(col, names) ==
  IF names = {} THEN <<>>
  ELSE LET a == CHOOSE x \in names : \A y \in names : Before(col, x, y)
       IN  << <<a, Cardinality(MentionsOf(col, a))>> >>
           \o MostCommon(col, names \ {a})

CharacterLines(df) ==
  LET col == Column(df, "Characters")
      top == MostCommon(col, {col[m[1]][m[2]] : m \in Mentions(col)})
  IN  << <<"Top 10 Most Frequently Appearing Characters:">> >>
      \o SubSeq(top, 1, Min(TopCharacters, Len(top)))

\* analyze_important_events
ImportantLines(df) ==
  << <<"Important Events Analysis:">>,
     <<"Important trigger events", CountOf(Column(df, "Trigger"), TRUE)>>,
     <<"Death events", CountOf(Column(df, "Death"), TRUE)>> >>

(***************************************************************************)
(* Spec: main(), one call per step.  load_data reads MaxMainEvents event   *)
(* rows at most, with identifiers 1, 2, ... and any of the Dates, and      *)
(* MaxMainEdges edge rows at most.                                         *)
(***************************************************************************)
MaxMainEvents == 2

MaxMainEdges == 1

\* Two dates of different years, a text that is no date ("31-02-1986"),
\* and a missing cell.
Dates ==
  {DateStr(21, 6, 1986), DateStr(4, 11, 2019), DateStr(31, 2, 1986), DateNaN}

MainEventInputs ==
  {[k \in 1..Len(ds) |-> EventRow(k, k, ds[k])] :
     ds \in SeqsUpTo(Dates, MaxMainEvents)}

MainEdgeInputs ==
  {[k \in 1..Len(ends) |-> EdgeRow(ends[k][1], ends[k][2], k)] :
     ends \in SeqsUpTo((Ids \cup {NaN}) \X (Ids \cup {NaN}), MaxMainEdges)}

HeadingLines == << <<"Dark Series Graph Analysis Report">>, <<"=", 30>> >>

Init ==
  /\ pc = "start"
  /\ events_df = <<>>
  /\ edges_df = <<>>
  /\ G = EmptyGraph
  /\ i = 0
  /\ report = <<>>
  /\ betweenness = Unset
  /\ components = Unset

\* open('report.txt', 'w') and the two lines of the heading.
OpenReport ==
  /\ pc = "start"
  /\ report' = HeadingLines
  /\ pc' = "opened"
  /\ UNCHANGED <<events_df, edges_df, G, i, betweenness, components>>

LoadData ==
  /\ pc = "opened"
  /\ events_df' \in MainEventInputs
  /\ edges_df' \in MainEdgeInputs
  /\ pc' = "loaded"
  /\ UNCHANGED <<G, i, report, betweenness, components>>

\* pd.read_csv raises (a file is absent, empty or unreadable); the with
\* statement closes report.txt, which keeps what was written.
LoadDataRaises ==
  /\ pc = "opened"
  /\ pc' = "failed"
  /\ UNCHANGED <<events_df, edges_df, G, i, report, betweenness, components>>

CreateGraph ==
  /\ pc = "loaded"
  /\ G' = create_graph(events_df, edges_df)
  /\ pc' = "built"
  /\ UNCHANGED <<events_df, edges_df, i, report, betweenness, components>>

AnalyzeWorlds ==
  /\ pc = "built"
  /\ report' = report \o WorldLines(events_df)
  /\ pc' = "worlds"
  /\ UNCHANGED <<events_df, edges_df, G, i, betweenness, components>>

AnalyzeTemporal ==
  /\ pc = "worlds"
  /\ ~ToDatetimeRaises(Column(events_df, "Date"))
  /\ events_df' = AssignDate(events_df)
  /\ report' = report \o TemporalLines(events_df')
  /\ pc' = "temporal"
  /\ UNCHANGED <<edges_df, G, i, betweenness, components>>

AnalyzeTemporalRaises ==
  /\ pc = "worlds"
  /\ ToDatetimeRaises(Column(events_df, "Date"))
  /\ pc' = "failed"
  /\ UNCHANGED <<events_df, edges_df, G, i, report, betweenness, components>>

AnalyzeCharacters ==
  /\ pc = "temporal"
  /\ report' = report \o CharacterLines(events_df)
  /\ pc' = "characters"
  /\ UNCHANGED <<events_df, edges_df, G, i, betweenness, components>>

AnalyzeImportant ==
  /\ pc = "characters"
  /\ report' = report \o ImportantLines(events_df)
  /\ pc' = "important"
  /\ UNCHANGED <<events_df, edges_df, G, i, betweenness, components>>

AnalyzeStructure ==
  /\ pc = "important"
  /\ betweenness' = betweenness_centrality(G)
  /\ components' = strongly_connected_components(G)
  /\ report' = report \o StructureLines(G, betweenness', components')
  /\ pc' = IF LargestRaises(components') THEN "failed" ELSE "done"
  /\ UNCHANGED <<events_df, edges_df, G, i>>

Next ==
  \/ OpenReport
  \/ LoadData
  \/ LoadDataRaises
  \/ CreateGraph
  \/ AnalyzeWorlds
  \/ AnalyzeTemporal
  \/ AnalyzeTemporalRaises
  \/ AnalyzeCharacters
  \/ AnalyzeImportant
  \/ AnalyzeStructure

Spec == Init /\ [][Next]_vars

(***************************************************************************)
(* Properties of create_graph (checked under SpecBuild).                   *)
(***************************************************************************)
EventIds == {events_df[k].ID : k \in DOMAIN events_df}

EndPair(k) == <<edges_df[k].Source, edges_df[k].Target>>

\* The edge rows whose source and target are both identifiers of event rows.
ResolvedEdgeRows ==
  {k \in DOMAIN edges_df :
     edges_df[k].Source \in EventIds /\ edges_df[k].Target \in EventIds}

\* The edge rows the specification calls dropped: an endpoint is missing or
\* is not the identifier of any event row.
DroppedEdgeRows == DOMAIN edges_df \ ResolvedEdgeRows

\* The rows of events_df with identifier id.
RowsOf(id) == {k \in DOMAIN events_df : events_df[k].ID = id}

FirstRowOf(id) == CHOOSE k \in RowsOf(id) : \A l \in RowsOf(id) : k <= l

LastRowOf(id) == CHOOSE k \in RowsOf(id) : \A l \in RowsOf(id) : l <= k

HasDuplicateId == \E id \in EventIds : Cardinality(RowsOf(id)) > 1

NodesLoopOver == pc \in {"edges", "returned"}

\* C1: the returned graph has as many nodes as there are distinct event
\* identifiers, and as many edges as there are edge rows whose source and
\* target are both event identifiers.
C1_NodeAndEdgeCounts ==
  pc = "returned" =>
    /\ Len(G.node) = Cardinality(EventIds)
    /\ Len(G.edge) = Cardinality(ResolvedEdgeRows)

\* C2: an edge row with an endpoint that is no event identifier adds neither
\* an edge nor a node: once the node loop is over, every node of the graph
\* is an event identifier and no processed dropped row has its edge in the
\* graph.
C2_DanglingRowAddsNothing ==
  NodesLoopOver =>
    /\ Nodes(G) \subseteq EventIds
    /\ \A k \in DroppedEdgeRows :
         (pc = "returned" \/ k < i) => EndPair(k) \notin Edges(G)

C4_ParallelEdgesKept ==
  pc = "returned" =>
    /\ \A k \in ResolvedEdgeRows :
         /\ Cardinality({j \in DOMAIN G.edge : G.edge[j] = EndPair(k)})
              = Cardinality({l \in ResolvedEdgeRows : EndPair(l) = EndPair(k)})
         /\ \E j \in DOMAIN G.edge :
              /\ G.edge[j] = EndPair(k)
              /\ EdgeAttrs(edges_df[k]) \subseteq G.eattr[G.edge[j]]
    /\ Len(G.edge) >= Cardinality(ResolvedEdgeRows)

\* C5: dropped edge rows plus edges of the built graph equal the edge rows
\* of the input.
C5_Conservation ==
  pc = "returned" =>
    Cardinality(DroppedEdgeRows) + Len(G.edge) = Len(edges_df)

(***************************************************************************)
(* Properties of analyze_graph_structure (checked under SpecStructure).    *)
(* The graph notions below are stated from their definitions, not from the *)
(* algorithms above.                                                       *)
(***************************************************************************)
RECURSIVE Closure(_)
Closure(R) ==
  LET R2 == R \cup {<<pq[1][1], pq[2][2]>> :
                      pq \in {x \in R \X R : x[1][2] = x[2][1]}}
  IN  IF R2 = R THEN R ELSE Closure(R2)

\* u reaches v along one directed edge or more.
ReachesPlus(g) == Closure(Edges(g))

HasCycle(g) == \E v \in Nodes(g) : <<v, v>> \in ReachesPlus(g)

\* u and v reach each other (every node reaches itself); rp = ReachesPlus(g).
SameGroup(rp, u, v) == u = v \/ (<<u, v>> \in rp /\ <<v, u>> \in rp)

Groups(g) ==
  LET rp == ReachesPlus(g)
  IN  {{v \in Nodes(g) : SameGroup(rp, u, v)} : u \in Nodes(g)}

\* The directed paths without repeated node.
IsSimplePath(g, p) ==
  /\ \A a, b \in DOMAIN p : a # b => p[a] # p[b]
  /\ \A a \in 1..(Len(p) - 1) : <<p[a], p[a + 1]>> \in Edges(g)

RECURSIVE GrowPaths(_, _)
GrowPaths(g, P) ==
  LET Q == P \cup {Append(pv[1], pv[2]) :
                     pv \in {x \in P \X Nodes(g) :
                               IsSimplePath(g, Append(x[1], x[2]))}}
  IN  IF Q = P THEN P ELSE GrowPaths(g, Q)

SimplePaths(g) == GrowPaths(g, {<<v>> : v \in Nodes(g)})

\* The lines of the report with a given label.
LinesOf(label) == {k \in DOMAIN report : report[k][1] = label}

\* analyze_graph_structure has ended, normally or by an exception.
Ended == pc \in {"s_done", "s_failed"}

ChainReported ==
  \E k \in LinesOf("Longest causal chain") :
    /\ LinesOf("Longest causal chain") = {k}
    /\ LinesOf("Path") = {k + 1}
    /\ IsSimplePath(G, report[k + 1][2])
    /\ Len(report[k + 1][2]) = report[k][2]
    /\ \A p \in SimplePaths(G) : Len(p) <= report[k][2]

NoChainLine ==
  LinesOf("Longest causal chain") = {} /\ LinesOf("Path") = {}

Pos(g, v) == CHOOSE k \in DOMAIN g.node : g.node[k] = v

CentralHeader ==
  CHOOSE k \in DOMAIN report :
    report[k] = <<"Top 5 most central events (by betweenness centrality):">>

\* The identifiers of the "Event" lines, in the order written.
ListedCount == Cardinality(LinesOf("Event"))

Listed == [k \in 1..ListedCount |-> report[CentralHeader + k][2]]

\* The list holds the (up to) 5 nodes of highest betweenness, in descending
\* order of score, each with its formatted score.
ListedAreTopByScore ==
  LET sc == betweenness
  IN  /\ ListedCount = Min(TopN, Len(G.node))
      /\ LinesOf("Event") = (CentralHeader + 1)..(CentralHeader + ListedCount)
      /\ Range(Listed) \subseteq Nodes(G)
      /\ \A a, b \in 1..ListedCount :
           a < b => (Listed[a] # Listed[b] /\ ~ScoreLess(sc[Listed[a]], sc[Listed[b]]))
      /\ \A x \in Range(Listed) : \A y \in Nodes(G) \ Range(Listed) :
           ~ScoreLess(sc[x], sc[y])
      /\ \A a \in 1..ListedCount :
           report[CentralHeader + a][3] = Format3f(sc[Listed[a]])

\* C9 (as claimed): the top-5 list holds the (up to) 5 nodes of highest
\* betweenness in descending order of score, and two nodes of equal score
\* appear in ascending order of identifier, whatever the insertion order.
C9_TiesByIdentifier ==
  Ended =>
    /\ ListedAreTopByScore
    /\ \A a, b \in 1..ListedCount :
         (a < b /\ ScoreEq(betweenness[Listed[a]],
                           betweenness[Listed[b]]))
           => Listed[a] < Listed[b]

\* C9 (amended): the top-5 list holds the (up to) 5 nodes of highest
\* betweenness in descending order of score, and two nodes of equal score
\* appear in the order in which they were inserted into the graph (the sort
\* is stable and has no other key); when equal scores straddle the cut at 5,
\* the nodes inserted first are the ones listed.
C9_TiesByInsertion ==
  Ended =>
    LET sc == betweenness
    IN  /\ ListedAreTopByScore
        /\ \A a, b \in 1..ListedCount :
             (a < b /\ ScoreEq(sc[Listed[a]], sc[Listed[b]]))
               => Pos(G, Listed[a]) < Pos(G, Listed[b])
        /\ \A x \in Range(Listed) : \A y \in Nodes(G) \ Range(Listed) :
             ScoreEq(sc[x], sc[y]) => Pos(G, x) < Pos(G, y)

C9_Witness ==
  /\ pc = "s_done"
  /\ Len(G.node) > TopN
  /\ \E a, b \in 1..ListedCount :
       /\ a < b
       /\ Listed[a] > Listed[b]
       /\ ScoreEq(betweenness[Listed[a]],
                  betweenness[Listed[b]])
       /\ betweenness[Listed[a]].num > 0

\* The value of the only line with this label.
ValueOf(label) == report[CHOOSE k \in LinesOf(label) : TRUE][2]

\* C10: the strongly connected components partition the node set: every
\* node is in exactly one component, the sizes sum to the node count, two
\* nodes share a component iff each reaches the other, and the report gives
\* the number of such groups and the size of the largest.
C10_ComponentsPartition ==
  Ended =>
    LET comps == components
        rp == ReachesPlus(G)
        groups == Groups(G)
    IN  /\ \A v \in Nodes(G) :
             Cardinality({k \in DOMAIN comps : v \in comps[k]}) = 1
        /\ \A k \in DOMAIN comps : comps[k] # {} /\ comps[k] \subseteq Nodes(G)
        /\ SumSeq([k \in DOMAIN comps |-> Cardinality(comps[k])], Len(comps))
             = Len(G.node)
        /\ \A u, v \in Nodes(G) :
             (\E k \in DOMAIN comps : u \in comps[k] /\ v \in comps[k])
               <=> SameGroup(rp, u, v)
        /\ Cardinality(LinesOf("Strongly connected event groups")) = 1
        /\ ValueOf("Strongly connected event groups") = Cardinality(groups)
        /\ pc = "s_done" =>
             /\ Cardinality(LinesOf("Largest group size")) = 1
             /\ \E c \in groups :
                  /\ Cardinality(c) = ValueOf("Largest group size")
                  /\ \A d \in groups : Cardinality(d) <= Cardinality(c)

C10_Witness ==
  /\ pc = "s_done"
  /\ Edges(G) = {<<1, 2>>, <<2, 3>>, <<3, 1>>}
  /\ ValueOf("Strongly connected event groups") = 1
  /\ ValueOf("Largest group size") = 3

\* The elementary cycles of g as node sequences: no node repeats, each node
\* has an edge to the next and the last has an edge back to the first.  A
\* cycle over k nodes appears here k times, once per rotation.
CycleSequences(g) ==
  {p \in SimplePaths(g) : <<p[Len(p)], p[1]>> \in Edges(g)}

IsRotation(p, q) ==
  /\ Len(p) = Len(q)
  /\ \E s \in 0..(Len(p) - 1) :
       \A k \in 1..Len(p) : q[k] = p[((k + s - 1) % Len(p)) + 1]

\* One sequence per elementary cycle: the rotation that starts at the
\* smallest identifier of the cycle.
ElementaryCycles(g) ==
  {p \in CycleSequences(g) : \A k \in DOMAIN p : p[1] <= p[k]}

\* The "Loop" lines of the report, in the order written.
LoopLines == SelectSeq(report, LAMBDA line : line[1] = "Loop")

\* C11: the "Causal loops found" count is the number of elementary cycles
\* of the graph, each counted once and not once per rotation, and the loops
\* printed are the first min(3, count) cycles in discovery order, numbered
\* from 1: each is an elementary cycle of the graph, no two are the same
\* cycle, and the heading of the list is written exactly when there is a
\* loop.
C11_LoopsAreElementaryCycles ==
  Ended =>
    LET count == ValueOf("Causal loops found")
        shown == IF count < 3 THEN count ELSE 3
    IN  /\ Cardinality(LinesOf("Causal loops found")) = 1
        /\ count = Cardinality(ElementaryCycles(G))
        /\ Len(LoopLines) = shown
        /\ (LinesOf("Notable causal loops:") # {}) <=> (count > 0)
        /\ \A k \in 1..shown :
             /\ LoopLines[k][2] = k
             /\ LoopLines[k][3] = simple_cycles(G)[k]
             /\ LoopLines[k][3] \in CycleSequences(G)
        /\ \A j, k \in 1..shown :
             j # k => ~IsRotation(LoopLines[j][3], LoopLines[k][3])

\* The ring 1 -> 2 -> 3 -> 1 alone: one loop, of length 3, over {1, 2, 3}.
C11_Witness ==
  /\ pc = "s_done"
  /\ Nodes(G) = {1, 2, 3}
  /\ Edges(G) = {<<1, 2>>, <<2, 3>>, <<3, 1>>}
  /\ ValueOf("Causal loops found") = 1
  /\ Len(LoopLines) = 1
  /\ Len(LoopLines[1][3]) = 3
  /\ Range(LoopLines[1][3]) = {1, 2, 3}

\* More loops than are printed: five loops found, three shown.
C11_WitnessCut ==
  /\ pc = "s_done"
  /\ ValueOf("Causal loops found") = 5
  /\ Len(LoopLines) = 3

(***************************************************************************)
(* Properties of main (checked under Spec).                                *)
(***************************************************************************)
SectionHeaders ==
  {<<"Events Distribution Across Worlds:">>,
   <<"Temporal Distribution of Events:">>,
   <<"Top 10 Most Frequently Appearing Characters:">>,
   <<"Important Events Analysis:">>,
   <<"Graph Structure Analysis:">>}

\* Every section of the report has been written, to its last line.
FullReport ==
  /\ SectionHeaders \subseteq Range(report)
  /\ LinesOf("Largest group size") # {}

\* C6: a run of main either completes and emits the full report, or fails
\* before anything has been written to the report file.
C6_NoPartialReport ==
  /\ pc = "done" => FullReport
  /\ pc = "failed" => report = <<>>

\* The event rows whose date is a text that cannot be parsed.
BadDateRows ==
  {k \in DOMAIN events_df :
     events_df[k].Date.kind = "str" /\ ~Parses(events_df[k].Date)}

\* C8: an event row whose date cannot be parsed does not abort the run: the
\* rows are loaded and the run ends with every report section produced.
C8_BadDateDoesNotAbort ==
  (BadDateRows # {} /\ pc \notin {"start", "opened", "loaded", "built", "worlds"})
    => (pc # "failed" /\ (pc = "done" => FullReport))

\* main is past create_graph and an analysis pass is about to run.
InAnalysis == pc \in {"built", "worlds", "temporal", "characters", "important"}

\* C12: every analysis pass run by main after create_graph is a pure read:
\* a step taken from a state in which the graph is built leaves the graph and
\* the loaded event records unchanged, so each later pass sees the records
\* the graph was built from.
C12_PassesArePureReads ==
  [][InAnalysis => (G' = G /\ events_df' = events_df)]_vars

====
